---------------------------- MODULE Spec2Model ----------------------------
(***************************************************************************)
(* The GPTSMReader component (wordahead-frontend/src/components/           *)
(* GPTSMReader.jsx) as a state machine: its six useState cells, the        *)
(* invocations of handleAnalyze and handleWordClick suspended at an await, *)
(* and the setTimeout callbacks registered by closeSidebar.                *)
(*                                                                         *)
(* Encoding of JavaScript values:                                          *)
(*   - a string the code inspects character by character (inputText, a     *)
(*     word) is a sequence of one-character strings; a message the code    *)
(*     only builds by concatenation is a TLA+ string;                      *)
(*   - an object is a function from its field names to their values, so    *)
(*     {} is <<>> and a field is absent when it is not in the DOMAIN;      *)
(*   - a cell that holds null or a value holds NULL or Some(value);        *)
(*   - an opacity is a percentage (0.75 is 75).                            *)
(***************************************************************************)
EXTENDS Bags, FiniteSets, Integers, Sequences, TLC

VARIABLES
    inputText,       \* useState('')    line 7
    processedWords,  \* useState([])    line 8
    isLoading,       \* useState(false) line 9
    error,           \* useState(null)  line 10
    selectedWord,    \* useState(null)  line 11
    sidebarOpen,     \* useState(false) line 12
    analyzeReqs,     \* bag of handleAnalyze invocations suspended at an await
    translateReqs,   \* bag of handleWordClick invocations suspended at an await
    timers           \* pending setTimeout callbacks of closeSidebar, oldest first,
                     \* each the milliseconds left before it is due

vars == <<inputText, processedWords, isLoading, error, selectedWord,
          sidebarOpen, analyzeReqs, translateReqs, timers>>

-----------------------------------------------------------------------------
(* Bounds of the model. *)

\* handleWordClick invocations that may be suspended at the same time
MaxPending == 2
\* closeSidebar timers that may be pending at the same time
MaxTimers == 2
\* milliseconds by which one step of the clock advances
TickMs == 150

-----------------------------------------------------------------------------
(* JavaScript values. *)

NULL == <<>>
Some(v) == <<v>>
Value(cell) == cell[1]

\* const API_URL = import.meta.env.VITE_API_URL || 'http://localhost:5000'
API_URL == "http://localhost:5000"

\* the delay of the setTimeout in closeSidebar
CloseDelay == 300

\* { ...a, ...b } with the fields of a winning
SpreadKeepFirst(a, b) ==
    [f \in (DOMAIN a) \cup (DOMAIN b) |-> IF f \in DOMAIN a THEN a[f] ELSE b[f]]

\* { ...a, ...b }
Spread(a, b) ==
    [f \in (DOMAIN a) \cup (DOMAIN b) |-> IF f \in DOMAIN b THEN b[f] ELSE a[f]]

\* the characters String.prototype.trim removes (those the inputs contain)
IsWhiteSpace(c) == c \in {" ", "\t", "\n"}

RECURSIVE TrimStart(_)
TrimStart(s) ==
    IF s # <<>> /\ IsWhiteSpace(Head(s)) THEN TrimStart(Tail(s)) ELSE s

RECURSIVE TrimEnd(_)
TrimEnd(s) ==
    IF s # <<>> /\ IsWhiteSpace(s[Len(s)])
    THEN TrimEnd(SubSeq(s, 1, Len(s) - 1))
    ELSE s

\* s used as it is
NoTrim(s) == s

\* s.trim()
Trim(s) == TrimEnd(TrimStart(s))

\* the characters encodeURIComponent leaves alone (those the inputs contain)
IsUnreserved(c) ==
    c \in {"a", "b", "c", "d", "g", "o", "t", "-", "_", ".", "!", "~", "*", "'", "(", ")"}

\* the escape of a character encodeURIComponent does not leave alone
PercentEscape(c) ==
    CASE c = " " -> <<"%", "2", "0">>
      [] c = "/" -> <<"%", "2", "F">>
      [] c = "&" -> <<"%", "2", "6">>
      [] c = "%" -> <<"%", "2", "5">>
      [] c = "?" -> <<"%", "3", "F">>

RECURSIVE encodeURIComponent(_)
encodeURIComponent(s) ==
    IF s = <<>> THEN <<>>
    ELSE (IF IsUnreserved(Head(s)) THEN <<Head(s)>> ELSE PercentEscape(Head(s)))
         \o encodeURIComponent(Tail(s))

-----------------------------------------------------------------------------
(* The inputs: what the user types and what the two endpoints answer. *)

\* contents of the textarea
Texts == { <<>>, <<" ", "\n">>, <<" ", "a", " ">> }

Cat == [word |-> <<"c", "a", "t">>, importance |-> 4, opacity |-> 100]
\* an annotation whose opacity disagrees with the legend and whose word needs escaping
AOrB == [word |-> <<"a", "/", "b">>, importance |-> 1, opacity |-> 75,
         cefr_level |-> "A2", root |-> "ab"]

\* bodies of a 2xx answer of POST /api/process-text
AnalyzeBodies ==
    { [words |-> <<Cat, AOrB>>], [words |-> <<AOrB>>], [words |-> <<>>], <<>> }

\* statuses of an answer whose response.ok is false
ErrorStatuses == {404, 500}

\* messages of the exception a rejected fetch carries
FetchFailures == {"Failed to fetch"}
\* messages of the exception a rejected response.json() carries
ParseFailures == {"Unexpected end of JSON input"}

\* bodies of a 2xx answer of GET /api/translate/word/{word}
TranslateBodies ==
    { [translation |-> "chatul", transliteration |-> "xatul", root |-> ""],
      [cefr_level |-> "B2", root |-> "xtl"],
      <<>> }
\* JSON bodies of an answer of the same endpoint whose response.ok is false
TranslateErrorBodies == { [error |-> "Word not found"] }


-----------------------------------------------------------------------------
(* What the component renders from its state. *)

\* {processedWords.length > 0 && ( <div className="results-section"> ... )}
WordListRendered == Len(processedWords) > 0

\* {sidebarOpen && selectedWord && ( ... the sidebar ... )}
PanelVisible == sidebarOpen /\ selectedWord # NULL

\* a button that is never disabled
AlwaysEnabled == TRUE

\* <button className="analyze-button" onClick={handleAnalyze} disabled={isLoading}>
AnalyzeButtonEnabled == ~isLoading

-----------------------------------------------------------------------------
(* The requests. *)

\* the same request with the trimmed text as payload
AnalyzeRequestTrimmed(text) ==
    [method |-> "POST",
     url    |-> API_URL \o "/api/process-text",
     body   |-> [text |-> Trim(text)],
     stage  |-> "fetch"]

\* fetch(`${API_URL}/api/process-text`, { method: 'POST', headers, body })
AnalyzeRequest(text) ==
    [method |-> "POST",
     url    |-> API_URL \o "/api/process-text",
     body   |-> [text |-> text],
     stage  |-> "fetch"]

\* the same request with the word put in the URL unescaped
TranslateRequestRaw(wordData) ==
    [method   |-> "GET",
     url      |-> <<API_URL \o "/api/translate/word/", wordData.word>>,
     wordData |-> wordData,
     stage    |-> "fetch"]

\* fetch(`${API_URL}/api/translate/word/${encodeURIComponent(wordData.word)}`)
\* the invocation keeps its argument wordData
TranslateRequest(wordData) ==
    [method   |-> "GET",
     url      |-> <<API_URL \o "/api/translate/word/", encodeURIComponent(wordData.word)>>,
     wordData |-> wordData,
     stage    |-> "fetch"]

Add(bag, r) == bag (+) SetToBag({r})
Remove(bag, r) == bag (-) SetToBag({r})

TypeOK ==
    /\ inputText \in Texts
    /\ isLoading \in BOOLEAN
    /\ sidebarOpen \in BOOLEAN
    /\ Len(error) <= 1
    /\ Len(selectedWord) <= 1
    /\ IsABag(analyzeReqs)
    /\ IsABag(translateReqs)
    /\ BagCardinality(translateReqs) <= MaxPending
    /\ Len(timers) <= MaxTimers
    /\ \A i \in DOMAIN timers : timers[i] \in 0..CloseDelay

Init ==
    /\ inputText = <<>>
    /\ processedWords = <<>>
    /\ isLoading = FALSE
    /\ error = NULL
    /\ selectedWord = NULL
    /\ sidebarOpen = FALSE
    /\ analyzeReqs = EmptyBag
    /\ translateReqs = EmptyBag
    /\ timers = <<>>

-----------------------------------------------------------------------------
(* The textarea and handleAnalyze. *)

\* onChange={(e) => setInputText(e.target.value)}
SetText(s) ==
    /\ inputText' = s
    /\ UNCHANGED <<processedWords, isLoading, error, selectedWord, sidebarOpen,
                   analyzeReqs, translateReqs, timers>>

\* handleAnalyze, lines 15-18: the early return on blank input
AnalyzeBlank ==
    /\ AnalyzeButtonEnabled
    /\ Trim(inputText) = <<>>
    /\ error' = Some("Please enter some text to analyze")
    /\ UNCHANGED <<inputText, processedWords, isLoading, selectedWord, sidebarOpen,
                   analyzeReqs, translateReqs, timers>>

\* the same with setError(null) left out
AnalyzeSendKeepError ==
    /\ AnalyzeButtonEnabled
    /\ Trim(inputText) # <<>>
    /\ isLoading' = TRUE
    /\ analyzeReqs' = Add(analyzeReqs, AnalyzeRequest(inputText))
    /\ UNCHANGED <<inputText, processedWords, error, selectedWord, sidebarOpen,
                   translateReqs, timers>>

\* handleAnalyze, lines 20-32: up to the first await
AnalyzeSend ==
    /\ AnalyzeButtonEnabled
    /\ Trim(inputText) # <<>>
    /\ isLoading' = TRUE
    /\ error' = NULL
    /\ analyzeReqs' = Add(analyzeReqs, AnalyzeRequest(inputText))
    /\ UNCHANGED <<inputText, processedWords, selectedWord, sidebarOpen,
                   translateReqs, timers>>

\* `Server error: ${response.status}`
ServerErrorMessage(status) == "Server error: " \o ToString(status)

\* err.message alone
FailureMessageBare(m) == m

\* `Failed to process text: ${err.message}`
FailureMessage(m) == "Failed to process text: " \o m

\* a rejected fetch that reports the failure and sends the request again
AnalyzeFetchRejectRetry(r, m) ==
    /\ r \in BagToSet(analyzeReqs)
    /\ r.stage = "fetch"
    /\ error' = Some(FailureMessage(m))
    /\ UNCHANGED <<inputText, processedWords, isLoading, selectedWord, sidebarOpen,
                   analyzeReqs, translateReqs, timers>>

\* fetch rejects: catch (line 49), finally (line 51)
AnalyzeFetchReject(r, m) ==
    /\ r \in BagToSet(analyzeReqs)
    /\ r.stage = "fetch"
    /\ error' = Some(FailureMessage(m))
    /\ isLoading' = FALSE
    /\ analyzeReqs' = Remove(analyzeReqs, r)
    /\ UNCHANGED <<inputText, processedWords, selectedWord, sidebarOpen,
                   translateReqs, timers>>

\* the same with setIsLoading(false) left out
AnalyzeFetchNotOkNoFinally(r, status) ==
    /\ r \in BagToSet(analyzeReqs)
    /\ r.stage = "fetch"
    /\ error' = Some(FailureMessage(ServerErrorMessage(status)))
    /\ analyzeReqs' = Remove(analyzeReqs, r)
    /\ UNCHANGED <<inputText, processedWords, isLoading, selectedWord, sidebarOpen,
                   translateReqs, timers>>

\* fetch resolves with !response.ok: throw (line 35), catch, finally
AnalyzeFetchNotOk(r, status) ==
    /\ r \in BagToSet(analyzeReqs)
    /\ r.stage = "fetch"
    /\ error' = Some(FailureMessage(ServerErrorMessage(status)))
    /\ isLoading' = FALSE
    /\ analyzeReqs' = Remove(analyzeReqs, r)
    /\ UNCHANGED <<inputText, processedWords, selectedWord, sidebarOpen,
                   translateReqs, timers>>

\* fetch resolves with response.ok: the invocation awaits response.json() (line 38)
AnalyzeFetchOk(r) ==
    /\ r \in BagToSet(analyzeReqs)
    /\ r.stage = "fetch"
    /\ analyzeReqs' = Add(Remove(analyzeReqs, r), [r EXCEPT !.stage = "json"])
    /\ UNCHANGED <<inputText, processedWords, isLoading, error, selectedWord,
                   sidebarOpen, translateReqs, timers>>

\* response.json() rejects: catch, finally
AnalyzeJsonReject(r, m) ==
    /\ r \in BagToSet(analyzeReqs)
    /\ r.stage = "json"
    /\ error' = Some(FailureMessage(m))
    /\ isLoading' = FALSE
    /\ analyzeReqs' = Remove(analyzeReqs, r)
    /\ UNCHANGED <<inputText, processedWords, selectedWord, sidebarOpen,
                   translateReqs, timers>>

\* data.words && data.words.length > 0
HasWords(data) == "words" \in DOMAIN data /\ Len(data.words) > 0

\* the same with the word list emptied when no words came back
AnalyzeJsonResolveClearing(r, data) ==
    /\ r \in BagToSet(analyzeReqs)
    /\ r.stage = "json"
    /\ IF HasWords(data)
       THEN /\ processedWords' = data.words
            /\ error' = NULL
       ELSE /\ error' = Some("No words returned from server")
            /\ processedWords' = <<>>
    /\ isLoading' = FALSE
    /\ analyzeReqs' = Remove(analyzeReqs, r)
    /\ UNCHANGED <<inputText, selectedWord, sidebarOpen, translateReqs, timers>>

\* response.json() resolves: lines 41-46, finally
AnalyzeJsonResolve(r, data) ==
    /\ r \in BagToSet(analyzeReqs)
    /\ r.stage = "json"
    /\ IF HasWords(data)
       THEN /\ processedWords' = data.words
            /\ error' = NULL
       ELSE /\ error' = Some("No words returned from server")
            /\ UNCHANGED processedWords
    /\ isLoading' = FALSE
    /\ analyzeReqs' = Remove(analyzeReqs, r)
    /\ UNCHANGED <<inputText, selectedWord, sidebarOpen, translateReqs, timers>>


-----------------------------------------------------------------------------
(* handleWordClick. *)

\* onClick={() => handleWordClick(wordData)} on the i-th span: lines 56-61,
\* up to the first await
SelectWord(i) ==
    /\ i \in DOMAIN processedWords
    /\ BagCardinality(translateReqs) < MaxPending
    /\ selectedWord' = Some(processedWords[i])
    /\ sidebarOpen' = TRUE
    /\ translateReqs' = Add(translateReqs, TranslateRequest(processedWords[i]))
    /\ UNCHANGED <<inputText, processedWords, isLoading, error, analyzeReqs, timers>>

\* fetch rejects: catch (line 65) logs and returns
TranslateFetchReject(r) ==
    /\ r \in BagToSet(translateReqs)
    /\ r.stage = "fetch"
    /\ translateReqs' = Remove(translateReqs, r)
    /\ UNCHANGED <<inputText, processedWords, isLoading, error, selectedWord,
                   sidebarOpen, analyzeReqs, timers>>

\* fetch resolves, whatever response.ok is (the code does not read it): the
\* invocation awaits response.json() (line 62)
TranslateFetchResolve(r) ==
    /\ r \in BagToSet(translateReqs)
    /\ r.stage = "fetch"
    /\ translateReqs' =
           Add(Remove(translateReqs, r), [r EXCEPT !.stage = "json"])
    /\ UNCHANGED <<inputText, processedWords, isLoading, error, selectedWord,
                   sidebarOpen, analyzeReqs, timers>>

\* response.json() rejects: catch (line 65) logs and returns
TranslateJsonReject(r) ==
    /\ r \in BagToSet(translateReqs)
    /\ r.stage = "json"
    /\ translateReqs' = Remove(translateReqs, r)
    /\ UNCHANGED <<inputText, processedWords, isLoading, error, selectedWord,
                   sidebarOpen, analyzeReqs, timers>>

\* response.json() resolves with the body of the answer, a 2xx one or not:
\* setSelectedWord({ ...wordData, ...translationData })
TranslateJsonResolve(r, translationData) ==
    /\ r \in BagToSet(translateReqs)
    /\ r.stage = "json"
    /\ selectedWord' = Some(Spread(r.wordData, translationData))
    /\ translateReqs' = Remove(translateReqs, r)
    /\ UNCHANGED <<inputText, processedWords, isLoading, error, sidebarOpen,
                   analyzeReqs, timers>>

-----------------------------------------------------------------------------
(* closeSidebar and its timers. *)

\* onClick={closeSidebar} on the overlay or the close button, both inside the
\* sidebar block: lines 70-71
CloseSidebar ==
    /\ PanelVisible
    /\ Len(timers) < MaxTimers
    /\ sidebarOpen' = FALSE
    /\ timers' = Append(timers, CloseDelay)
    /\ UNCHANGED <<inputText, processedWords, isLoading, error, selectedWord,
                   analyzeReqs, translateReqs>>

\* the callback of line 71, once due: () => setSelectedWord(null)
TimerFire ==
    /\ timers # <<>>
    /\ Head(timers) = 0
    /\ selectedWord' = NULL
    /\ timers' = Tail(timers)
    /\ UNCHANGED <<inputText, processedWords, isLoading, error, sidebarOpen,
                   analyzeReqs, translateReqs>>

\* time passes; a timer that is due may still fire late
Tick ==
    /\ \E i \in DOMAIN timers : timers[i] > 0
    /\ timers' = [i \in DOMAIN timers |->
                     IF timers[i] > TickMs THEN timers[i] - TickMs ELSE 0]
    /\ UNCHANGED <<inputText, processedWords, isLoading, error, selectedWord,
                   sidebarOpen, analyzeReqs, translateReqs>>

-----------------------------------------------------------------------------
(* The component. *)

AnalyzeReqSet == BagToSet(analyzeReqs)
TranslateReqSet == BagToSet(translateReqs)

\* a handleAnalyze invocation resumes
AnalyzeResume ==
    \E r \in AnalyzeReqSet :
        \/ \E m \in FetchFailures : AnalyzeFetchReject(r, m)
        \/ \E status \in ErrorStatuses : AnalyzeFetchNotOk(r, status)
        \/ AnalyzeFetchOk(r)
        \/ \E m \in ParseFailures : AnalyzeJsonReject(r, m)
        \/ \E data \in AnalyzeBodies : AnalyzeJsonResolve(r, data)

\* a handleWordClick invocation resumes
TranslateResume ==
    \E r \in TranslateReqSet :
        \/ TranslateFetchReject(r)
        \/ TranslateFetchResolve(r)
        \/ TranslateJsonReject(r)
        \/ \E d \in TranslateBodies \cup TranslateErrorBodies : TranslateJsonResolve(r, d)

Next ==
    \/ \E s \in Texts : SetText(s)
    \/ AnalyzeBlank
    \/ AnalyzeSend
    \/ AnalyzeResume
    \/ \E i \in DOMAIN processedWords : SelectWord(i)
    \/ TranslateResume
    \/ CloseSidebar
    \/ TimerFire
    \/ Tick

Spec == Init /\ [][Next]_vars

\* every analysis request is answered or fails: a handleAnalyze invocation
\* suspended at an await is eventually resumed
FairSpec == Spec /\ WF_vars(AnalyzeResume)


-----------------------------------------------------------------------------
(* Properties. *)

AnyTranslateBody == TranslateBodies \cup TranslateErrorBodies

\* s is empty or holds white space only
IsBlank(s) == \A i \in DOMAIN s : s[i] \in {" ", "\t", "\n"}

\* C1: a translation response is merged into the selection only if the
\* selection is still the word the request was issued for (a response that
\* resolves when the selection is null or another word leaves the selection
\* alone), so the selection's word changes only by a selectWord.
C1_StaleResponseDiscarded ==
    [][ /\ \A r \in TranslateReqSet : \A d \in AnyTranslateBody :
              ( /\ TranslateJsonResolve(r, d)
                /\ ~(selectedWord # NULL /\ Value(selectedWord).word = r.wordData.word) )
              => selectedWord' = selectedWord
        /\ ( /\ selectedWord' # NULL
             /\ selectedWord = NULL \/ Value(selectedWord').word # Value(selectedWord).word )
           => \E i \in DOMAIN processedWords : SelectWord(i)
      ]_vars

\* C2: a close() clears the open flag in the same step, and whenever the
\* selection is set to null by a close timer, the close delay of every close()
\* made so far has elapsed (no other close timer has time left).
C2_ClearOnlyAfterDelay ==
    [][ /\ Len(timers') > Len(timers) => ~sidebarOpen'
        /\ (Len(timers') < Len(timers) /\ selectedWord' = NULL)
           => \A i \in DOMAIN timers : timers[i] = 0
      ]_vars

\* C3: submit() with a buffer that is empty or white space only issues no
\* request, leaves the loading flag alone and sets the error message to
\* "Please enter some text to analyze"; no request in flight carries a blank text.
C3_BlankSubmit ==
    /\ [](\A r \in AnalyzeReqSet : ~IsBlank(r.body.text))
    /\ [][ (IsBlank(inputText) /\ (AnalyzeBlank \/ AnalyzeSend))
           => /\ error' = Some("Please enter some text to analyze")
              /\ UNCHANGED <<isLoading, analyzeReqs>>
         ]_vars

\* C3 witness: the message is shown for a buffer of white space, with a word
\* list of an earlier analysis on screen and nothing in flight
C3_Witness ==
    /\ inputText = <<" ", "\n">>
    /\ error = Some("Please enter some text to analyze")
    /\ WordListRendered
    /\ ~isLoading
    /\ analyzeReqs = EmptyBag

\* C4: after a 2xx analysis response whose words field is empty or missing, the
\* error message is "No words returned from server" and no word list is rendered.
C4_EmptyResultHidesList ==
    [][ \A r \in AnalyzeReqSet : \A data \in AnalyzeBodies :
            ( /\ AnalyzeJsonResolve(r, data)
              /\ ("words" \notin DOMAIN data \/ data.words = <<>>) )
            => /\ error' = Some("No words returned from server")
               /\ ~WordListRendered'
      ]_vars

\* C5: at most one analysis request is in flight at any time.
C5_OneAnalysisInFlight == BagCardinality(analyzeReqs) <= 1

\* C5 witness: a request is in flight while the buffer holds a text that a
\* second submit would send
C5_Witness ==
    /\ BagCardinality(analyzeReqs) = 1
    /\ ~IsBlank(inputText)
    /\ isLoading


\* C6: every analysis request that completes, whatever its outcome, leaves the
\* loading flag cleared; the loading flag is true exactly while an analysis
\* request is in flight; and, the response being fair, a set loading flag is
\* eventually cleared.
C6_LoadingCleared ==
    /\ [](isLoading <=> analyzeReqs # EmptyBag)
    /\ [][ BagCardinality(analyzeReqs') < BagCardinality(analyzeReqs) => ~isLoading' ]_vars
    /\ (isLoading ~> ~isLoading)

\* C6 witness: a request has failed with a server error and loading is cleared
C6_Witness ==
    /\ error = Some("Failed to process text: Server error: 500")
    /\ ~isLoading
    /\ analyzeReqs = EmptyBag

\* the message the claim gives for a response of status S
ExpectedServerError(S) ==
    CASE S = 404 -> "Failed to process text: Server error: 404"
      [] S = 500 -> "Failed to process text: Server error: 500"

\* the message the claim gives for an exception of message m
ExpectedFailure(m) ==
    CASE m = "Failed to fetch" -> "Failed to process text: Failed to fetch"
      [] m = "Unexpected end of JSON input"
           -> "Failed to process text: Unexpected end of JSON input"

\* C7: a failed analysis request sets the error message to "Failed to process
\* text: " followed by the failure's message: "Server error: S" for a non-2xx
\* status S, the exception's message for a network or parse failure.
C7_FailureMessage ==
    [][ \A r \in AnalyzeReqSet :
          /\ \A S \in ErrorStatuses :
                 AnalyzeFetchNotOk(r, S) => error' = Some(ExpectedServerError(S))
          /\ \A m \in FetchFailures :
                 AnalyzeFetchReject(r, m) => error' = Some(ExpectedFailure(m))
          /\ \A m \in ParseFailures :
                 AnalyzeJsonReject(r, m) => error' = Some(ExpectedFailure(m))
      ]_vars

\* C7 witness: a parse failure has been reported, with the word list of an
\* earlier analysis still on screen
C7_Witness ==
    /\ error = Some("Failed to process text: Unexpected end of JSON input")
    /\ WordListRendered
    /\ analyzeReqs = EmptyBag

\* the URL-encoded form of the words of the inputs
ExpectedKey(word) ==
    CASE word = <<"c", "a", "t">> -> <<"c", "a", "t">>
      [] word = <<"a", "/", "b">> -> <<"a", "%", "2", "F", "b">>

\* C8: selectWord(annotation) sets the selection to exactly that annotation and
\* opens the panel in the same step, so the panel is visible before any
\* translation response; the step issues one GET to the translation endpoint
\* keyed by the URL-encoded word and nothing else changes.
C8_SelectWord ==
    [][ \A i \in DOMAIN processedWords :
          SelectWord(i) =>
            LET a == processedWords[i] IN
              /\ selectedWord' = Some(a)
              /\ sidebarOpen'
              /\ PanelVisible'
              /\ \E r \in BagToSet(translateReqs') :
                    /\ translateReqs' = translateReqs (+) SetToBag({r})
                    /\ r.method = "GET"
                    /\ r.url = <<"http://localhost:5000/api/translate/word/",
                                 ExpectedKey(a.word)>>
                    /\ r.stage = "fetch"
      ]_vars

\* C8 witness: the word that needs escaping is selected and shown while its
\* request is still waiting for the response
C8_Witness ==
    /\ selectedWord = Some(AOrB)
    /\ PanelVisible
    /\ \E r \in TranslateReqSet :
          /\ r.stage = "fetch"
          /\ r.wordData = AOrB
          /\ r.url[2] = <<"a", "%", "2", "F", "b">>

\* C9: when the translation response of the selected annotation resolves, the
\* selection becomes the annotation overwritten by the response: its fields
\* are those of either, a field of the response has the response's value, any
\* other field keeps the annotation's value.
C9_ShallowOverwrite ==
    [][ \A r \in TranslateReqSet : \A d \in AnyTranslateBody :
          (TranslateJsonResolve(r, d) /\ selectedWord = Some(r.wordData)) =>
            /\ selectedWord' # NULL
            /\ LET a == r.wordData
                   m == Value(selectedWord')
               IN  /\ DOMAIN m = (DOMAIN a) \cup (DOMAIN d)
                   /\ \A f \in DOMAIN d : m[f] = d[f]
                   /\ \A f \in (DOMAIN a) \ (DOMAIN d) : m[f] = a[f]
      ]_vars

\* C9 witness: a response has overwritten the cefr_level and root of the
\* annotation and left its other fields
C9_Witness ==
    /\ selectedWord # NULL
    /\ DOMAIN Value(selectedWord) = {"word", "importance", "opacity", "cefr_level", "root"}
    /\ Value(selectedWord).cefr_level = "B2"
    /\ Value(selectedWord).root = "xtl"
    /\ Value(selectedWord).word = <<"a", "/", "b">>
    /\ Value(selectedWord).opacity = 75

\* C10: when the translation request fails (fetch rejects, the body does not
\* parse, or the answer is not 2xx), the selection, the open flag, the error
\* message, the loading flag and the word list are left as they were.
C10_TranslateFailureSilent ==
    [][ \A r \in TranslateReqSet :
          ( \/ TranslateFetchReject(r)
            \/ TranslateJsonReject(r)
            \/ \E d \in TranslateErrorBodies : TranslateJsonResolve(r, d) )
          => UNCHANGED <<selectedWord, sidebarOpen, error, isLoading, processedWords>>
      ]_vars


-----------------------------------------------------------------------------
(* The results section, lines 102-135. *)

\* the static legend: the opacity shown beside each importance
LegendOpacity(importance) ==
    CASE importance = 4 -> 100
      [] importance = 3 -> 75
      [] importance = 2 -> 50
      [] importance = 1 -> 35
      [] importance = 0 -> 25

\* a span whose opacity is taken from the legend instead of the annotation
RenderWordByLegend(wordData, index) ==
    [key       |-> index,
     className |-> "word importance-" \o ToString(wordData.importance),
     opacity   |-> LegendOpacity(wordData.importance),
     onClick   |-> wordData,
     text      |-> wordData.word \o <<" ">>]

\* the span of one annotation, lines 107-114; onClick is the argument its
\* click hands to handleWordClick
RenderWord(wordData, index) ==
    [key       |-> index,
     className |-> "word importance-" \o ToString(wordData.importance),
     opacity   |-> wordData.opacity,
     onClick   |-> wordData,
     text      |-> wordData.word \o <<" ">>]

\* processedWords.map((wordData, index) => ...), indices counted from 0
RenderedWords == [i \in DOMAIN processedWords |-> RenderWord(processedWords[i], i - 1)]

\* the style class the claim gives to an importance
ExpectedClass(importance) ==
    CASE importance = 0 -> "word importance-0"
      [] importance = 1 -> "word importance-1"
      [] importance = 2 -> "word importance-2"
      [] importance = 3 -> "word importance-3"
      [] importance = 4 -> "word importance-4"

\* C11: the renderer produces one clickable unit per annotation, in the list's
\* order; the unit's opacity is the annotation's opacity field as received,
\* also when it differs from the legend's opacity of its importance, and its
\* style class is determined by the importance alone.
C11_RenderAsReceived ==
    /\ Len(RenderedWords) = Len(processedWords)
    /\ \A i \in DOMAIN processedWords :
          LET a == processedWords[i]
              u == RenderedWords[i]
          IN  /\ u.onClick = a
              /\ u.text = a.word \o <<" ">>
              /\ u.opacity = a.opacity
              /\ u.className = ExpectedClass(a.importance)

\* C11 witness: a list of two words is rendered, the second with an opacity
\* that is not the legend's opacity of its importance
C11_Witness ==
    /\ Len(processedWords) = 2
    /\ processedWords[1].word = <<"c", "a", "t">>
    /\ processedWords[2].opacity = 75
    /\ LegendOpacity(processedWords[2].importance) = 35


\* C12: the word list changes only in the step of a 2xx analysis response with
\* a non-empty words sequence, and such a step makes the list exactly that
\* sequence; every other step (setText, a blank submit, a failed or empty
\* analysis, selectWord, a translation merge, close and its timer) leaves it.
C12_WordListFrame ==
    [][ /\ processedWords' # processedWords
           => \E r \in AnalyzeReqSet : \E data \in AnalyzeBodies :
                 /\ AnalyzeJsonResolve(r, data)
                 /\ "words" \in DOMAIN data
                 /\ data.words # <<>>
        /\ \A r \in AnalyzeReqSet : \A data \in AnalyzeBodies :
              ( /\ AnalyzeJsonResolve(r, data)
                /\ "words" \in DOMAIN data
                /\ data.words # <<>> )
              => processedWords' = data.words
      ]_vars

\* C12 witness: a translation response has overwritten the cefr_level of the
\* selection, and the annotation in the list still has the level it came with
C12_Witness ==
    /\ processedWords = <<AOrB>>
    /\ selectedWord # NULL
    /\ Value(selectedWord).word = <<"a", "/", "b">>
    /\ Value(selectedWord).cefr_level = "B2"
    /\ processedWords[1].cefr_level = "A2"
    /\ error = Some("No words returned from server")


\* C13: a valid submit() sets the loading flag and clears the error before the
\* request is issued, so while an analysis request is in flight the loading
\* flag is true and the error message is null; and after a 2xx response with
\* non-empty words the error message is null.
C13_LoadingAndNoErrorInFlight ==
    /\ [](analyzeReqs # EmptyBag => (isLoading /\ error = NULL))
    /\ [][ \A r \in AnalyzeReqSet : \A data \in AnalyzeBodies :
              ( /\ AnalyzeJsonResolve(r, data)
                /\ "words" \in DOMAIN data
                /\ data.words # <<>> )
              => error' = NULL
         ]_vars

\* C13 witness: a request sent over an earlier result is waiting for its body
C13_Witness ==
    /\ \E r \in AnalyzeReqSet : r.stage = "json"
    /\ isLoading
    /\ error = NULL
    /\ WordListRendered


\* the requests of the bag whose answer has not arrived yet
Unanswered(bag) == { q \in BagToSet(bag) : q.stage = "fetch" }

\* copies of q issued in this step
Issued(q, before, after) == CopiesIn(q, after) - CopiesIn(q, before)

\* C14: no request is retried: a POST is issued only by a valid submit() and a
\* GET only by a selectWord(), one per call; every failure outcome of either
\* request ends its invocation without issuing a request; the error message
\* changes only in a submit() or in the step that ends an analysis request,
\* so each failed analysis sets it once.
C14_NoRetry ==
    [][ /\ \A q \in Unanswered(analyzeReqs') :
              Issued(q, analyzeReqs, analyzeReqs') > 0 => AnalyzeSend
        /\ \A q \in Unanswered(translateReqs') :
              Issued(q, translateReqs, translateReqs') > 0
              => \E i \in DOMAIN processedWords : SelectWord(i)
        /\ AnalyzeSend =>
              /\ BagCardinality(analyzeReqs') = BagCardinality(analyzeReqs) + 1
              /\ translateReqs' = translateReqs
        /\ (\E i \in DOMAIN processedWords : SelectWord(i)) =>
              /\ BagCardinality(translateReqs') = BagCardinality(translateReqs) + 1
              /\ analyzeReqs' = analyzeReqs
        /\ \A r \in AnalyzeReqSet :
              ( \/ \E m \in FetchFailures : AnalyzeFetchReject(r, m)
                \/ \E S \in ErrorStatuses : AnalyzeFetchNotOk(r, S)
                \/ \E m \in ParseFailures : AnalyzeJsonReject(r, m)
                \/ \E data \in {[words |-> <<>>], <<>>} : AnalyzeJsonResolve(r, data) )
              => /\ analyzeReqs' = analyzeReqs (-) SetToBag({r})
                 /\ translateReqs' = translateReqs
        /\ \A r \in TranslateReqSet :
              (TranslateFetchReject(r) \/ TranslateJsonReject(r))
              => /\ translateReqs' = translateReqs (-) SetToBag({r})
                 /\ analyzeReqs' = analyzeReqs
        /\ error' # error
              => \/ AnalyzeBlank
                 \/ AnalyzeSend
                 \/ BagCardinality(analyzeReqs') = BagCardinality(analyzeReqs) - 1
      ]_vars

\* C14 witness: a network failure has been reported and nothing is in flight
C14_Witness ==
    /\ error = Some("Failed to process text: Failed to fetch")
    /\ analyzeReqs = EmptyBag
    /\ translateReqs = EmptyBag
    /\ selectedWord # NULL


\* C15: the payload of the analysis POST is the text buffer as it was when
\* submit() was called, untrimmed; the payload of a request in flight never
\* changes, whatever setText() does to the buffer meanwhile.
C15_PayloadUntrimmed ==
    [][ /\ AnalyzeSend
           => \E q \in BagToSet(analyzeReqs') :
                 /\ analyzeReqs' = analyzeReqs (+) SetToBag({q})
                 /\ q.method = "POST"
                 /\ q.url = "http://localhost:5000/api/process-text"
                 /\ q.body = [text |-> inputText]
                 /\ Len(q.body.text) = Len(inputText)
        /\ inputText' # inputText => analyzeReqs' = analyzeReqs
        /\ ~AnalyzeSend
           => \A q \in BagToSet(analyzeReqs') :
                 \E r \in AnalyzeReqSet : q.body = r.body
      ]_vars

\* C15 witness: the padded text is on its way, white space included, and the
\* buffer has been emptied since
C15_Witness ==
    /\ inputText = <<>>
    /\ \E r \in AnalyzeReqSet :
          /\ r.body.text = <<" ", "a", " ">>
          /\ r.stage = "json"


\* C16: whenever the panel's open flag is true the selection is non-null, so
\* the panel opened by a selectWord stays visible until the next close().
C16_OpenImpliesSelection == sidebarOpen => selectedWord # NULL

\* C17: in the closed state (open flag false, no close timer pending) the
\* selection is null, and a selection that is null stays null until the next
\* selectWord().
C17_ClosedImpliesNoSelection ==
    /\ []((~sidebarOpen /\ timers = <<>>) => selectedWord = NULL)
    /\ [][ (selectedWord = NULL /\ selectedWord' # NULL)
           => \E i \in DOMAIN processedWords : SelectWord(i) ]_vars


-----------------------------------------------------------------------------
(* The sidebar, lines 138-189. *)

\* the values of the inputs that JavaScript takes for false
Truthy(v) == v # ""

\* a fallback used only when the field is absent
OrElseIfAbsent(o, f, fallback) == IF f \in DOMAIN o THEN o[f] ELSE fallback

\* o.f || fallback
OrElse(o, f, fallback) ==
    IF f \in DOMAIN o /\ Truthy(o[f]) THEN o[f] ELSE fallback

\* the placeholder of line 149
LoadingPlaceholder == "טוען..."

\* what the sidebar shows of the selection s, lines 145-165
DetailPanel(s) ==
    [title           |-> s.word,
     translation     |-> OrElse(s, "translation", LoadingPlaceholder),
     transliteration |-> OrElse(s, "transliteration", ""),
     importance      |-> s.importance,
     cefrClass       |-> "cefr-badge cefr-" \o OrElse(s, "cefr_level", "B1"),
     cefrBadge       |-> OrElse(s, "cefr_level", "B1"),
     root            |-> OrElse(s, "root", "Unknown")]

\* C18 as stated: the panel shows the fallback of translation, cefr_level and
\* root exactly when the field is absent from the selection, and the field's
\* value unchanged whenever it is present.
C18_FallbackIffAbsent ==
    PanelVisible =>
        LET s == Value(selectedWord)
            p == DetailPanel(s)
        IN  /\ p.translation = IF "translation" \in DOMAIN s THEN s.translation ELSE "טוען..."
            /\ p.cefrBadge = IF "cefr_level" \in DOMAIN s THEN s.cefr_level ELSE "B1"
            /\ p.root = IF "root" \in DOMAIN s THEN s.root ELSE "Unknown"

\* C18 as amended: the panel shows the fallback exactly when the field is
\* absent from the selection or is the empty string, and otherwise the
\* field's value unchanged.
C18_FallbackIffAbsentOrEmpty ==
    PanelVisible =>
        LET s == Value(selectedWord)
            p == DetailPanel(s)
            Missing(f) == f \notin DOMAIN s \/ s[f] = ""
        IN  /\ p.translation = IF Missing("translation") THEN "טוען..." ELSE s.translation
            /\ p.cefrBadge = IF Missing("cefr_level") THEN "B1" ELSE s.cefr_level
            /\ p.root = IF Missing("root") THEN "Unknown" ELSE s.root

\* C18 witness: the panel shows a selection whose merged translation is
\* present and shown, whose root is present but empty and shown as "Unknown",
\* and whose cefr_level is absent and shown as "B1"
C18_Witness ==
    /\ PanelVisible
    /\ DOMAIN Value(selectedWord) =
           {"word", "importance", "opacity", "translation", "transliteration", "root"}
    /\ Value(selectedWord).root = ""
    /\ DetailPanel(Value(selectedWord)).root = "Unknown"
    /\ DetailPanel(Value(selectedWord)).translation = "chatul"
    /\ DetailPanel(Value(selectedWord)).cefrBadge = "B1"

=============================================================================
